---- MODULE Spec2Model ----
(***************************************************************************)
(* gcal: a command-line program that authenticates against a calendar      *)
(* service, lists the user's calendars, lists the events of each calendar  *)
(* in a time window and prints them in the "remind" or the "org" dialect.  *)
(* The model follows src/main.go: init() (flag parsing), main() (the       *)
(* driver), getClient / getTokenFromWeb / tokenFromFile / saveToken (the   *)
(* token cache), getCalendarList and getEvents (the service calls), and    *)
(* the per-event parsing and formatting in main's inner loop.              *)
(*                                                                         *)
(* Text that the program inspects character by character (calendar         *)
(* descriptions and summaries, which are trimmed; event start markers,     *)
(* which are parsed) is a sequence of one-character strings.  Text that    *)
(* the program only produces (output lines, the query window) is a string. *)
(***************************************************************************)
EXTENDS Integers, Sequences, FiniteSets, TLC

VARIABLES
    pc,             \* position of the process in init()/main()
    format,         \* flag -format
    emptycal,       \* flag -emptycal
    duration,       \* flag -duration
    tokenFile,      \* token.json on disk
    tok,            \* getClient's tok: "" until a token is loaded or retrieved
    stdinReads,     \* number of reads of standard input so far
    stdout,         \* lines written to standard output, in order
    exitStatus,     \* process exit status once pc = "exited", else NoStatus
    fatal,          \* what ended the process: "" while running or on os.Exit(0)
    calendar_list,  \* main's calendar_list.Items
    remote,         \* the service's answer to an event listing, per calendar
    idx,            \* index of the calendar the outer loop is at
    events,         \* main's events for the calendar at idx
    evIdx,          \* index of the event the inner loop is at
    requests,       \* event-listing requests received by the service, in order
    now             \* getEvents' now (local clock reading of the latest call)

vars == <<pc, format, emptycal, duration, tokenFile, tok, stdinReads, stdout,
          exitStatus, fatal, calendar_list, remote, idx, events, evIdx,
          requests, now>>

(***************************************************************************)
(* Bounds of the model.                                                    *)
(***************************************************************************)
MaxCals == 2       \* longest calendar list the service returns
NumYears == 2      \* clock readings range over NumYears years from FirstYear
WeekYears == 8     \* event starts range over the turn of WeekYears years

(***************************************************************************)
(* Characters and numbers.                                                 *)
(***************************************************************************)
Digits == <<"0", "1", "2", "3", "4", "5", "6", "7", "8", "9">>

Digit(n) == Digits[n + 1]

IsDigit(c) == \E n \in 0..9 : Digits[n + 1] = c

DigitVal(c) == CHOOSE n \in 0..9 : Digits[n + 1] = c

\* fmt's %02d and time's "02", "15", "04", "05" for 0 <= n < 100
Pad2(n) == Digit((n \div 10) % 10) \o Digit(n % 10)

\* time's "2006" for 0 <= n < 10000
Pad4(n) == Pad2(n \div 100) \o Pad2(n % 100)

\* fmt's %d for 0 <= n < 100
Itoa(n) == IF n < 10 THEN Digit(n) ELSE Pad2(n)

\* the string made of the characters of s, in order
RECURSIVE Join(_)
Join(s) == IF s = <<>> THEN "" ELSE Head(s) \o Join(Tail(s))

\* the number written by the digit characters of s
RECURSIVE Atoi(_)
Atoi(s) == IF s = <<>> THEN 0
           ELSE 10 * Atoi(SubSeq(s, 1, Len(s) - 1)) + DigitVal(s[Len(s)])

AllDigits(s) == \A i \in 1..Len(s) : IsDigit(s[i])

(***************************************************************************)
(* strings.TrimSpace: leading and trailing white space removed.            *)
(***************************************************************************)
IsSpace(c) == c \in {" ", "\t", "\n", "\r"}

RECURSIVE TrimLeft(_)
TrimLeft(s) == IF s # <<>> /\ IsSpace(Head(s)) THEN TrimLeft(Tail(s)) ELSE s

RECURSIVE TrimRight(_)
TrimRight(s) == IF s # <<>> /\ IsSpace(s[Len(s)])
                THEN TrimRight(SubSeq(s, 1, Len(s) - 1)) ELSE s

TrimSpace(s) == TrimRight(TrimLeft(s))

(***************************************************************************)
(* Package time: the proleptic Gregorian calendar.                         *)
(***************************************************************************)
IsLeap(y) == y % 4 = 0 /\ (y % 100 # 0 \/ y % 400 = 0)

\* time's daysBefore table: days of a non-leap year before month m (1..13)
DaysBefore == <<0, 31, 59, 90, 120, 151, 181, 212, 243, 273, 304, 334, 365>>

DaysIn(m, y) == IF m = 2 /\ IsLeap(y) THEN 29 ELSE DaysBefore[m + 1] - DaysBefore[m]

\* days from 0001-01-01 to the first day of year y
DaysSinceEpoch(y) ==
    LET p == y - 1 IN 365 * p + (p \div 4) - (p \div 100) + (p \div 400)

\* time.Date(year, month, day, 0, ...): month and day outside their ranges are
\* normalised; the result is the day number counted from 0001-01-01 (= day 0)
DateToDay(year, month, day) ==
    LET m0 == month - 1
        y  == year + (m0 \div 12)
        m  == (m0 % 12) + 1
        leapAdj == IF IsLeap(y) /\ m >= 3 THEN 1 ELSE 0
    IN DaysSinceEpoch(y) + DaysBefore[m] + leapAdj + (day - 1)

\* time's absDate: the civil date [year, month, day, yday] of a day number
DayToDate(n) ==
    LET y    == CHOOSE c \in ((n \div 366) + 1)..((n \div 365) + 1) :
                    DaysSinceEpoch(c) <= n /\ n < DaysSinceEpoch(c + 1)
        yday == n - DaysSinceEpoch(y)
        m    == CHOOSE c \in 1..12 :
                    /\ DateToDay(y, c, 1) <= n
                    /\ n < DateToDay(y, c, 1) + DaysIn(c, y)
    IN [year |-> y, month |-> m, day |-> n - DateToDay(y, m, 1) + 1, yday |-> yday]

\* Time.Weekday of a day number: 0 = Sunday .. 6 = Saturday (0001-01-01 is a Monday)
Weekday(n) == (n + 1) % 7

\* Time.ISOWeek: the week number of the Thursday of the day's Monday-based week
ISOWeek(n) ==
    LET d0  == 4 - Weekday(n)
        d   == IF d0 = 4 THEN 0 - 3 ELSE d0
    IN (DayToDate(n + d).yday \div 7) + 1

ShortMonthNames == <<"Jan", "Feb", "Mar", "Apr", "May", "Jun",
                     "Jul", "Aug", "Sep", "Oct", "Nov", "Dec">>

ShortDayNames == <<"Sun", "Mon", "Tue", "Wed", "Thu", "Fri", "Sat">>

(***************************************************************************)
(* Package time: Time values, Parse and Format for the layouts main uses.  *)
(* A Time is a wall-clock reading in a zone: abs is the day number of its  *)
(* date, offset the zone's minutes east of UTC.                            *)
(***************************************************************************)
\* the zone of time.Local on the machine the program runs on (minutes east of UTC)
LocalOffset == 0 - 300

\* time.Date(year, month, day, 0, 0, 0, 0, loc)
Date(year, month, day, off) ==
    [abs |-> DateToDay(year, month, day), hour |-> 0, minute |-> 0, second |-> 0,
     offset |-> off]

\* layout "Z07:00"
FormatZone(off) ==
    IF off = 0 THEN "Z"
    ELSE LET a == IF off < 0 THEN 0 - off ELSE off
         IN (IF off < 0 THEN "-" ELSE "+") \o Pad2(a \div 60) \o ":" \o Pad2(a % 60)

\* layout "2006-01-02"
FormatISODate(t) ==
    LET d == DayToDate(t.abs) IN Pad4(d.year) \o "-" \o Pad2(d.month) \o "-" \o Pad2(d.day)

\* layout "15:04:05"
FormatClock(t) == Pad2(t.hour) \o ":" \o Pad2(t.minute) \o ":" \o Pad2(t.second)

\* t.Format(time.RFC3339), layout "2006-01-02T15:04:05Z07:00"
FormatRFC3339(t) == FormatISODate(t) \o "T" \o FormatClock(t) \o FormatZone(t.offset)

\* t.Format("Jan 02")
FormatJan02(t) ==
    LET d == DayToDate(t.abs) IN ShortMonthNames[d.month] \o " " \o Pad2(d.day)

\* t.Format("2006-01-02 Mon 15:04:05")
FormatOrgStamp(t) ==
    FormatISODate(t) \o " " \o ShortDayNames[Weekday(t.abs) + 1] \o " " \o FormatClock(t)

ParseError == [ok |-> FALSE]

\* the date part "2006-01-02" at the head of s, as [ok, abs]
ParseYMD(s) ==
    IF /\ Len(s) >= 10
       /\ AllDigits(SubSeq(s, 1, 4)) /\ s[5] = "-"
       /\ AllDigits(SubSeq(s, 6, 7)) /\ s[8] = "-"
       /\ AllDigits(SubSeq(s, 9, 10))
    THEN LET y == Atoi(SubSeq(s, 1, 4))
             m == Atoi(SubSeq(s, 6, 7))
             d == Atoi(SubSeq(s, 9, 10))
         IN IF m \in 1..12 /\ d >= 1 /\ d <= DaysIn(m, y)
            THEN [ok |-> TRUE, abs |-> DateToDay(y, m, d)]
            ELSE ParseError
    ELSE ParseError

\* time.Parse("2006-01-02", s): midnight UTC of the date
ParseDate(s) ==
    LET p == ParseYMD(s)
    IN IF Len(s) = 10 /\ p.ok
       THEN [ok |-> TRUE,
             t |-> [abs |-> p.abs, hour |-> 0, minute |-> 0, second |-> 0,
                    offset |-> 0]]
       ELSE ParseError

\* the zone "Z07:00" written by z, as [ok, offset]
ParseZone(z) ==
    IF z = <<"Z">> THEN [ok |-> TRUE, offset |-> 0]
    ELSE IF /\ Len(z) = 6 /\ z[1] \in {"+", "-"}
            /\ AllDigits(SubSeq(z, 2, 3)) /\ z[4] = ":" /\ AllDigits(SubSeq(z, 5, 6))
         THEN LET hh == Atoi(SubSeq(z, 2, 3))
                  mm == Atoi(SubSeq(z, 5, 6))
              IN IF hh <= 23 /\ mm <= 59
                 THEN [ok |-> TRUE,
                       offset |-> IF z[1] = "-" THEN 0 - (60 * hh + mm) ELSE 60 * hh + mm]
                 ELSE ParseError
         ELSE ParseError

\* time.Parse(time.RFC3339, s): the wall clock and the zone as written
ParseRFC3339(s) ==
    LET p == ParseYMD(s)
    IN IF /\ Len(s) \in {20, 25} /\ p.ok
          /\ s[11] = "T"
          /\ AllDigits(SubSeq(s, 12, 13)) /\ s[14] = ":"
          /\ AllDigits(SubSeq(s, 15, 16)) /\ s[17] = ":"
          /\ AllDigits(SubSeq(s, 18, 19))
       THEN LET hh == Atoi(SubSeq(s, 12, 13))
                mi == Atoi(SubSeq(s, 15, 16))
                ss == Atoi(SubSeq(s, 18, 19))
                z  == ParseZone(SubSeq(s, 20, Len(s)))
            IN IF hh <= 23 /\ mi <= 59 /\ ss <= 59 /\ z.ok
               THEN [ok |-> TRUE,
                     t |-> [abs |-> p.abs, hour |-> hh, minute |-> mi, second |-> ss,
                            offset |-> z.offset]]
               ELSE ParseError
       ELSE ParseError

(***************************************************************************)
(* What the environment supplies: the flags, the clock, the calendar       *)
(* service's data.  The service writes an event's start marker either as   *)
(* a date ("2025-01-05") or as an RFC 3339 timestamp with a zone.          *)
(***************************************************************************)
FirstYear == 2024

Chars2(n) == <<Digit((n \div 10) % 10), Digit(n % 10)>>

Chars4(n) == Chars2(n \div 100) \o Chars2(n % 100)

\* the service's Start.Date of the day year-month-day
EncDate(year, month, day) ==
    Chars4(year) \o <<"-">> \o Chars2(month) \o <<"-">> \o Chars2(day)

\* the service's Start.DateTime of the wall clock hh:mi:ss that day, zone off
EncDateTime(year, month, day, hh, mi, ss, off) ==
    EncDate(year, month, day) \o <<"T">> \o Chars2(hh) \o <<":">> \o Chars2(mi)
        \o <<":">> \o Chars2(ss)
        \o (IF off = 0 THEN <<"Z">>
            ELSE LET a == IF off < 0 THEN 0 - off ELSE off
                 IN <<IF off < 0 THEN "-" ELSE "+">> \o Chars2(a \div 60)
                        \o <<":">> \o Chars2(a % 60))

TimedEvent(summary, year, month, day, hh, mi, ss, off) ==
    [Summary |-> summary,
     Start |-> [DateTime |-> EncDateTime(year, month, day, hh, mi, ss, off),
                Date |-> <<>>]]

AllDayEvent(summary, year, month, day) ==
    [Summary |-> summary,
     Start |-> [DateTime |-> <<>>, Date |-> EncDate(year, month, day)]]

\* an event with neither start marker: the service never sends one, the
\* program would fail to parse it
BrokenEvent == [Summary |-> <<"x">>, Start |-> [DateTime |-> <<>>, Date |-> <<>>]]

Lunch == <<"L", "u", "n", "c", "h">>

Work == <<"W", "o", "r", "k">>

LunchEvent == TimedEvent(Lunch, 2025, 1, 5, 12, 30, 0, LocalOffset)

OffEvent == AllDayEvent(<<" ", "O", "f", "f", "\t">>, 2024, 12, 30)

\* the service's answer to one event listing: an error, or the events
ServiceError == [err |-> TRUE, items |-> <<>>]

Listing(items) == [err |-> FALSE, items |-> items]

Formats == {"", "remind", "org", "xml"}

Durations == {"1d", "1w", "1m", "2d"}

Descriptions == {<<>>, <<" ">>, <<" ">> \o Work \o <<" ">>}

SeqsUpTo(S, n) == UNION {[1..k -> S] : k \in 0..n}

\* the accounts of the driver's runs: up to MaxCals calendars, each with a
\* description and the answer the service gives when its events are listed
DriverAccounts ==
    SeqsUpTo([Description : Descriptions,
              answer : {ServiceError, Listing(<<>>), Listing(<<LunchEvent>>),
                        Listing(<<OffEvent, LunchEvent>>)}],
             MaxCals)

\* The runs that exercise parsing and formatting: one calendar with one event.
\* A start is the date and wall clock the service encodes; a text is the
\* characters the service sends (raw) for what reads as text once trimmed.
Stamp(allday, year, month, day, hh, mi, ss, off) ==
    [allday |-> allday, year |-> year, month |-> month, day |-> day,
     hh |-> hh, mi |-> mi, ss |-> ss, off |-> off]

FormatYears == (FirstYear - 1)..(FirstYear + WeekYears - 2)

AllDayStarts ==
    {Stamp(TRUE, y, 12, d, 0, 0, 0, 0) : y \in FormatYears, d \in 25..31}
    \cup {Stamp(TRUE, y, 1, d, 0, 0, 0, 0) : y \in FormatYears, d \in 1..7}
    \cup {Stamp(TRUE, FirstYear, m, 15, 0, 0, 0, 0) : m \in 1..12}
    \cup {Stamp(TRUE, FirstYear, 2, 29, 0, 0, 0, 0)}

LunchStart == Stamp(FALSE, 2025, 1, 5, 12, 30, 0, LocalOffset)

TimedStarts ==
    {Stamp(FALSE, d[1], d[2], d[3], c[1], c[2], c[3], off) :
        d \in {<<2025, 1, 5>>, <<2024, 12, 30>>},
        c \in {<<0, 0, 0>>, <<12, 30, 0>>, <<23, 59, 59>>, <<9, 5, 7>>},
        off \in {0, LocalOffset, 330}}

FormatStarts == AllDayStarts \cup TimedStarts

SummaryTexts ==
    {[raw |-> Lunch, text |-> "Lunch"],
     [raw |-> <<" ", "\t">> \o Lunch \o <<" ", "\n">>, text |-> "Lunch"],
     [raw |-> <<"a", " ", "b">>, text |-> "a b"],
     [raw |-> <<" ">>, text |-> ""]}

DescriptionTexts ==
    {[raw |-> <<>>, text |-> ""],
     [raw |-> <<" ">>, text |-> ""],
     [raw |-> <<" ">> \o Work \o <<" ">>, text |-> "Work"],
     [raw |-> Work, text |-> "Work"]}

EncStart(st) ==
    IF st.allday
    THEN [DateTime |-> <<>>, Date |-> EncDate(st.year, st.month, st.day)]
    ELSE [DateTime |-> EncDateTime(st.year, st.month, st.day, st.hh, st.mi, st.ss,
                                   st.off),
          Date |-> <<>>]

\* the start markers the service sends for the starts of FormatStarts
StartTable == [st \in FormatStarts |-> EncStart(st)]

FormatEvents ==
    {[Summary |-> Lunch, Start |-> StartTable[st]] : st \in FormatStarts}
    \cup {[Summary |-> sm.raw, Start |-> StartTable[st]] :
             sm \in SummaryTexts,
             st \in {x \in TimedStarts : x.hh = 12}}
    \cup {BrokenEvent}

FormatAccounts ==
    {<<[Description |-> ds.raw, answer |-> Listing(<<ev>>)]>> :
        ds \in DescriptionTexts, ev \in FormatEvents}

Clock(year, month, day, hour) ==
    [year |-> year, month |-> month, day |-> day, hour |-> hour]

DriverClocks == {Clock(2025, 1, 5, 9)}

\* the runs that exercise the query window: one calendar, every date of
\* NumYears years as the clock reading
WindowAccounts ==
    {<<[Description |-> Work, answer |-> Listing(<<LunchEvent>>)]>>}

WindowClocks ==
    {Clock(y, m, d, 23) : y \in FirstYear..(FirstYear + NumYears - 1),
                          m \in 1..12, d \in 1..31} \ {c \in
    {Clock(y, m, d, 23) : y \in FirstYear..(FirstYear + NumYears - 1),
                          m \in 1..12, d \in 1..31} : c.day > DaysIn(c.month, c.year)}

NoClock == Clock(0, 0, 0, 0)

CalId(i) == "cal" \o Digit(i)

(***************************************************************************)
(* The program.                                                            *)
(***************************************************************************)
NoStatus == 0 - 1

Init ==
    /\ pc = "init"
    /\ format \in Formats
    /\ emptycal \in BOOLEAN
    /\ duration \in Durations
    /\ tokenFile \in {"absent", "corrupt", "cached"}
    /\ tok = ""
    /\ stdinReads = 0
    /\ stdout = <<>>
    /\ exitStatus = NoStatus
    /\ fatal = ""
    /\ calendar_list = <<>>
    /\ remote = <<>>
    /\ idx = 0
    /\ events = <<>>
    /\ evIdx = 0
    /\ requests = <<>>
    /\ now = NoClock

\* os.Exit(status), log.Fatalf (status 1) and panic (status 2): the process ends
Exit(status, why) ==
    /\ pc' = "exited"
    /\ exitStatus' = status
    /\ fatal' = why

\* init(): flag.Parse has run; a missing -format prints the usage (on standard
\* error) and exits 1
init ==
    /\ pc = "init"
    /\ IF format = ""
       THEN Exit(1, "usage")
       ELSE pc' = "main" /\ UNCHANGED <<exitStatus, fatal>>
    /\ UNCHANGED <<format, emptycal, duration, tokenFile, tok, stdinReads, stdout,
                   calendar_list, remote, idx, events, evIdx, requests, now>>

\* main: os.ReadFile("credentials.json") and google.ConfigFromJSON
main_credentials ==
    /\ pc = "main"
    /\ \E outcome \in {"ok", "unreadable", "unparsable"} :
          IF outcome = "ok"
          THEN pc' = "getClient" /\ UNCHANGED <<exitStatus, fatal>>
          ELSE Exit(1, "Unable to read or parse client secret file")
    /\ UNCHANGED <<format, emptycal, duration, tokenFile, tok, stdinReads, stdout,
                   calendar_list, remote, idx, events, evIdx, requests, now>>

\* tokenFromFile: err is nil exactly when the file opens and decodes
tokenFromFile(file) == IF file \in {"cached", "saved"} THEN "" ELSE "error"

\* getClient: the cached token is used when it loads, else a new one is fetched
getClient ==
    /\ pc = "getClient"
    /\ pc' = IF tokenFromFile(tokenFile) # "" THEN "getTokenFromWeb" ELSE "NewService"
    /\ tok' = IF tokenFromFile(tokenFile) # "" THEN tok ELSE "cached"
    /\ UNCHANGED <<format, emptycal, duration, tokenFile, stdinReads, stdout,
                   exitStatus, fatal, calendar_list, remote, idx, events, evIdx,
                   requests, now>>

\* AfterTokenFromWeb with the error of config.Exchange not checked
AfterTokenFromWeb_ExchangeUnchecked(outcome) ==
    IF outcome = "scan failed" THEN "exited" ELSE "saveToken"

\* getTokenFromWeb: where it goes on each outcome of fmt.Scan and config.Exchange
AfterTokenFromWeb(outcome) ==
    IF outcome = "ok" THEN "saveToken" ELSE "exited"

\* getTokenFromWeb: fmt.Scan of the authorization code, then config.Exchange
getTokenFromWeb ==
    /\ pc = "getTokenFromWeb"
    /\ stdinReads' = stdinReads + 1
    /\ \E outcome \in {"ok", "scan failed", "exchange failed"} :
          /\ tok' = IF outcome = "ok" THEN "new" ELSE tok
          /\ IF AfterTokenFromWeb(outcome) = "exited"
             THEN Exit(1, "Unable to get token: " \o outcome)
             ELSE pc' = AfterTokenFromWeb(outcome) /\ UNCHANGED <<exitStatus, fatal>>
    /\ UNCHANGED <<format, emptycal, duration, tokenFile, stdout,
                   calendar_list, remote, idx, events, evIdx, requests, now>>

\* saveToken: os.OpenFile(O_RDWR|O_CREATE|O_TRUNC) then the token is encoded
saveToken ==
    /\ pc = "saveToken"
    /\ \E opened \in BOOLEAN :
          IF opened
          THEN /\ tokenFile' = "saved"
               /\ pc' = "NewService"
               /\ UNCHANGED <<exitStatus, fatal>>
          ELSE /\ Exit(1, "Unable to cache oauth token")
               /\ UNCHANGED tokenFile
    /\ UNCHANGED <<format, emptycal, duration, tok, stdinReads, stdout,
                   calendar_list, remote, idx, events, evIdx, requests, now>>

\* main: calendar.NewService
NewService ==
    /\ pc = "NewService"
    /\ \E ok \in BOOLEAN :
          IF ok
          THEN pc' = "getCalendarList" /\ UNCHANGED <<exitStatus, fatal>>
          ELSE Exit(1, "Unable to retrieve Calendar client")
    /\ UNCHANGED <<format, emptycal, duration, tokenFile, tok, stdinReads, stdout,
                   calendar_list, remote, idx, events, evIdx, requests, now>>

OrgPreamble == "# -*- mode: org -*-"

\* Preamble printed whatever the format
Preamble_Always(fmt) == <<OrgPreamble>>

\* main: what is printed between the calendar listing and the loop
Preamble(fmt) == IF fmt = "org" THEN <<OrgPreamble>> ELSE <<>>

\* main: getCalendarList (a failure panics), then the preamble
getCalendarList(accounts) ==
    /\ pc = "getCalendarList"
    /\ \E failed \in BOOLEAN :
          IF failed
          THEN /\ Exit(2, "panic: calendar list")
               /\ UNCHANGED <<stdout, calendar_list, remote, idx>>
          ELSE \E account \in accounts :
               /\ calendar_list' = [i \in 1..Len(account) |->
                                       [Id |-> CalId(i),
                                        Description |-> account[i].Description]]
               /\ remote' = [i \in 1..Len(account) |-> account[i].answer]
               /\ stdout' = stdout \o Preamble(format)
               /\ idx' = 1
               /\ pc' = "loop"
               /\ UNCHANGED <<exitStatus, fatal>>
    /\ UNCHANGED <<format, emptycal, duration, tokenFile, tok, stdinReads,
                   events, evIdx, requests, now>>

\* getEvents: midnight_today, from now
MidnightToday(clock) == Date(clock.year, clock.month, clock.day, LocalOffset)

\* getEvents: midnight_tomorrow, midnight_oneweek, midnight_onemonth
MidnightTomorrow(clock) == Date(clock.year, clock.month, clock.day + 1, LocalOffset)

\* MidnightOneWeek one day short
MidnightOneWeek_SixDays(clock) ==
    Date(clock.year, clock.month, clock.day + 6, LocalOffset)

MidnightOneWeek(clock) == Date(clock.year, clock.month, clock.day + 7, LocalOffset)

MidnightOneMonth(clock) == Date(clock.year, clock.month + 1, clock.day, LocalOffset)

\* getEvents: endtime, for the durations it accepts
EndTime(clock, dur) ==
    IF dur = "1w" THEN MidnightOneWeek(clock)
    ELSE IF dur = "1m" THEN MidnightOneMonth(clock)
    ELSE MidnightTomorrow(clock)

\* getEvents: the durations that are not reported as invalid
ValidDuration(dur) == dur \in {"1w", "1m", "1d"}

\* getEvents returning the service's error to main instead of ending the process
getEvents_ReturnsServiceError(calid, caldesc, clock, answer) ==
    IF ~ValidDuration(duration)
    THEN [sent |-> <<>>, exits |-> FALSE, err |-> "Invalid duration", items |-> <<>>]
    ELSE LET request == [calendarId |-> calid,
                         TimeMin |-> FormatRFC3339(MidnightToday(clock)),
                         TimeMax |-> FormatRFC3339(EndTime(clock, duration))]
         IN IF answer.err
            THEN [sent |-> <<request>>, exits |-> FALSE, err |-> "service error",
                  items |-> <<>>]
            ELSE [sent |-> <<request>>, exits |-> FALSE, err |-> "",
                  items |-> answer.items]

\* getEvents(srv, calid, caldesc) at clock reading clock, the service answering
\* with answer: the request sent (if any), whether log.Fatalf ended the process
\* inside the call, and the (events, err) returned otherwise
getEvents(calid, caldesc, clock, answer) ==
    IF ~ValidDuration(duration)
    THEN [sent |-> <<>>, exits |-> FALSE, err |-> "Invalid duration", items |-> <<>>]
    ELSE LET request == [calendarId |-> calid,
                         TimeMin |-> FormatRFC3339(MidnightToday(clock)),
                         TimeMax |-> FormatRFC3339(EndTime(clock, duration))]
         IN IF answer.err
            THEN [sent |-> <<request>>, exits |-> TRUE, err |-> "", items |-> <<>>]
            ELSE [sent |-> <<request>>, exits |-> FALSE, err |-> "",
                  items |-> answer.items]

\* SkipCalendar with the sense of -emptycal inverted
SkipCalendar_Inverted(calname) == calname = <<>> /\ emptycal

\* main: the calendars the loop passes over without looking at err or events
SkipCalendar(calname) == calname = <<>> /\ ~emptycal

\* main, one turn of the outer loop up to the inner loop: getEvents, the
\* empty-name skip, the err check
main_calendar(clocks) ==
    /\ pc = "loop"
    /\ idx <= Len(calendar_list)
    /\ \E clock \in clocks :
          LET item    == calendar_list[idx]
              r       == getEvents(item.Id, item.Description, clock, remote[idx])
              calname == TrimSpace(item.Description)
          IN /\ now' = clock
             /\ requests' = requests \o r.sent
             /\ IF r.exits
                THEN /\ Exit(1, "Unable to retrieve today's events")
                     /\ UNCHANGED <<idx, events, evIdx>>
                ELSE IF SkipCalendar(calname)
                THEN /\ idx' = idx + 1
                     /\ UNCHANGED <<pc, exitStatus, fatal, events, evIdx>>
                ELSE IF r.err # ""
                THEN /\ Exit(1, r.err)
                     /\ UNCHANGED <<idx, events, evIdx>>
                ELSE IF r.items = <<>>
                THEN /\ idx' = idx + 1
                     /\ UNCHANGED <<pc, exitStatus, fatal, events, evIdx>>
                ELSE /\ events' = r.items
                     /\ evIdx' = 1
                     /\ pc' = "events"
                     /\ UNCHANGED <<idx, exitStatus, fatal>>
    /\ UNCHANGED <<format, emptycal, duration, tokenFile, tok, stdinReads, stdout,
                   calendar_list, remote>>

\* main: the start of an event, from Start.DateTime or else Start.Date
ParseStart(item) ==
    IF item.Start.DateTime = <<>>
    THEN ParseDate(item.Start.Date)
    ELSE ParseRFC3339(item.Start.DateTime)

\* RemindLine with %d for %02d
RemindLine_Unpadded(start, summary) ==
    "REM " \o FormatJan02(start) \o " AT " \o Itoa(start.hour) \o ":"
        \o Itoa(start.minute) \o " MSG %\"" \o Join(summary) \o "%\" %b, %2"

\* main: the line printed for an event in remind format
RemindLine(start, summary) ==
    "REM " \o FormatJan02(start) \o " AT " \o Pad2(start.hour) \o ":"
        \o Pad2(start.minute) \o " MSG %\"" \o Join(summary) \o "%\" %b, %2"

\* HasCalendarLine without the test of the name
HasCalendarLine_Always(calname) == TRUE

\* main: whether the calendar property line is printed
HasCalendarLine(calname) == calname # <<>>

\* main: the lines printed for an event in org format
OrgLines(start, summary, calname) ==
    <<"* " \o Join(summary) \o " <" \o FormatOrgStamp(start) \o ">",
      "  #+PROPERTY: week=" \o Itoa(ISOWeek(start.abs))>>
    \o (IF HasCalendarLine(calname)
        THEN <<"  #+PROPERTY: calendar=" \o Join(calname)>>
        ELSE <<>>)

\* main: what one turn of the inner loop prints, or the panic that ends it
PrintEvent(item, calname) ==
    LET p       == ParseStart(item)
        summary == TrimSpace(item.Summary)
    IN IF ~p.ok THEN [panic |-> "parse", lines |-> <<>>]
       ELSE IF format = "remind"
       THEN [panic |-> "", lines |-> <<RemindLine(p.t, summary)>>]
       ELSE IF format = "org"
       THEN [panic |-> "", lines |-> OrgLines(p.t, summary, calname)]
       ELSE [panic |-> "unsupported format", lines |-> <<>>]

\* main, one turn of the inner loop: parse the start, print the event
main_event ==
    /\ pc = "events"
    /\ LET item    == events[evIdx]
           calname == TrimSpace(calendar_list[idx].Description)
           out     == PrintEvent(item, calname)
       IN IF out.panic # ""
          THEN /\ Exit(2, "panic: " \o out.panic)
               /\ UNCHANGED <<stdout, idx, events, evIdx>>
          ELSE /\ stdout' = stdout \o out.lines
               /\ UNCHANGED <<exitStatus, fatal>>
               /\ IF evIdx < Len(events)
                  THEN /\ evIdx' = evIdx + 1
                       /\ UNCHANGED <<pc, idx, events>>
                  ELSE /\ pc' = "loop"
                       /\ idx' = idx + 1
                       /\ events' = <<>>
                       /\ evIdx' = 0
    /\ UNCHANGED <<format, emptycal, duration, tokenFile, tok, stdinReads,
                   calendar_list, remote, requests, now>>

\* main_exit with the loop ending one calendar early
main_exit_EarlyByOne ==
    /\ pc = "loop"
    /\ idx >= Len(calendar_list)
    /\ Exit(0, "")
    /\ UNCHANGED <<format, emptycal, duration, tokenFile, tok, stdinReads, stdout,
                   calendar_list, remote, idx, events, evIdx, requests, now>>

\* main: os.Exit(0) after the last calendar
main_exit ==
    /\ pc = "loop"
    /\ idx > Len(calendar_list)
    /\ Exit(0, "")
    /\ UNCHANGED <<format, emptycal, duration, tokenFile, tok, stdinReads, stdout,
                   calendar_list, remote, idx, events, evIdx, requests, now>>

NextOn(accounts, clocks) ==
    \/ init
    \/ main_credentials
    \/ getClient
    \/ getTokenFromWeb
    \/ saveToken
    \/ NewService
    \/ getCalendarList(accounts)
    \/ main_calendar(clocks)
    \/ main_event
    \/ main_exit

Next == NextOn(DriverAccounts, DriverClocks)

\* the program on every account of up to MaxCals calendars
Spec == Init /\ [][Next]_vars

NextWindow == NextOn(WindowAccounts, WindowClocks)

\* the program on one calendar, run on every date of NumYears years
SpecWindow == Init /\ [][NextWindow]_vars

NextFormat == NextOn(FormatAccounts, DriverClocks)

\* the program on one calendar holding one event, for every start of FormatStarts
SpecFormat == Init /\ [][NextFormat]_vars

(***************************************************************************)
(* The calendar as the properties below state it, independently of package *)
(* time's day numbers: weekday by Sakamoto's rule, ISO 8601 week number by *)
(* the ordinal-day rule.                                                   *)
(***************************************************************************)
MonthLengths == <<31, 28, 31, 30, 31, 30, 31, 31, 30, 31, 30, 31>>

CivilLeap(y) == (y % 400 = 0) \/ (y % 4 = 0 /\ y % 100 # 0)

CivilDaysIn(y, m) == IF m = 2 /\ CivilLeap(y) THEN 29 ELSE MonthLengths[m]

\* 0 = Sunday .. 6 = Saturday
CivilWeekday(y, m, d) ==
    LET t  == <<0, 3, 2, 5, 0, 3, 5, 1, 4, 6, 2, 4>>
        yy == IF m < 3 THEN y - 1 ELSE y
    IN (yy + (yy \div 4) - (yy \div 100) + (yy \div 400) + t[m] + d) % 7

RECURSIVE OrdinalDay(_, _, _)
OrdinalDay(y, m, d) == IF m = 1 THEN d ELSE CivilDaysIn(y, m - 1) + OrdinalDay(y, m - 1, d)

IsoWeeksInYear(y) ==
    LET p(x) == (x + (x \div 4) - (x \div 100) + (x \div 400)) % 7
    IN IF p(y) = 4 \/ p(y - 1) = 3 THEN 53 ELSE 52

IsoWeekNumber(y, m, d) ==
    LET wd0 == CivilWeekday(y, m, d)
        wd  == IF wd0 = 0 THEN 7 ELSE wd0
        w   == (OrdinalDay(y, m, d) - wd + 10) \div 7
    IN IF w < 1 THEN IsoWeeksInYear(y - 1)
       ELSE IF w > IsoWeeksInYear(y) THEN 1
       ELSE w

\* the day after, and the day n days after, a civil date <<y, m, d>>
DayAfter(c) ==
    IF c[3] < CivilDaysIn(c[1], c[2]) THEN <<c[1], c[2], c[3] + 1>>
    ELSE IF c[2] < 12 THEN <<c[1], c[2] + 1, 1>>
    ELSE <<c[1] + 1, 1, 1>>

RECURSIVE DaysAfter(_, _)
DaysAfter(c, n) == IF n = 0 THEN c ELSE DaysAfter(DayAfter(c), n - 1)

\* "YYYY-MM-DD"
CivilText(c) == Pad4(c[1]) \o "-" \o Pad2(c[2]) \o "-" \o Pad2(c[3])

(***************************************************************************)
(* Runs of one calendar holding one well-formed event: the start, summary  *)
(* and description the service holds for it.                               *)
(***************************************************************************)
OneEventRun ==
    /\ Len(calendar_list) = 1
    /\ ~remote[1].err
    /\ Len(remote[1].items) = 1
    /\ remote[1].items[1] # BrokenEvent

TheStart == CHOOSE st \in FormatStarts : StartTable[st] = remote[1].items[1].Start

TheSummary == CHOOSE sm \in SummaryTexts : sm.raw = remote[1].items[1].Summary

TheDescription == CHOOSE ds \in DescriptionTexts : ds.raw = calendar_list[1].Description

\* the run ended normally
ExitedZero == pc = "exited" /\ exitStatus = 0

\* the calendar of a one-event run is not passed over
TheEventIsDue == TheDescription.text # "" \/ emptycal

\* C8
ExpectedOrgBlock ==
    LET st == TheStart
    IN <<"* " \o TheSummary.text \o " <" \o CivilText(<<st.year, st.month, st.day>>)
            \o " " \o ShortDayNames[CivilWeekday(st.year, st.month, st.day) + 1]
            \o " " \o Pad2(st.hh) \o ":" \o Pad2(st.mi) \o ":" \o Pad2(st.ss) \o ">",
         "  #+PROPERTY: week=" \o ToString(IsoWeekNumber(st.year, st.month, st.day))>>
       \o (IF TheDescription.text # ""
           THEN <<"  #+PROPERTY: calendar=" \o TheDescription.text>>
           ELSE <<>>)

\* C8: in org format a printed event is one block: the heading line with the
\* trimmed summary and the start as <YYYY-MM-DD Weekday HH:MM:SS>, the line
\* with the ISO week of the start, and the calendar line exactly when the
\* calendar's trimmed description is non-empty (so two lines for an event of
\* an empty-named calendar, three for any other).
C8_OrgBlock ==
    (format = "org" /\ OneEventRun /\ ExitedZero) =>
        /\ stdout = <<OrgPreamble>> \o (IF TheEventIsDue THEN ExpectedOrgBlock ELSE <<>>)
        /\ TheEventIsDue =>
              Len(stdout) - 1 = (IF TheDescription.text = "" THEN 2 ELSE 3)

\* C8: an event of an empty-named calendar printed under -emptycal: two lines
C8_Witness ==
    /\ format = "org" /\ OneEventRun /\ ExitedZero
    /\ emptycal /\ TheDescription.raw = <<" ">>
    /\ TheStart.allday /\ TheStart.month = 12 /\ TheStart.day = 30
    /\ Len(stdout) = 3

\* C9
ExpectedRemindLine ==
    LET st == TheStart
    IN "REM " \o ShortMonthNames[st.month] \o " " \o Pad2(st.day) \o " AT "
           \o Pad2(st.hh) \o ":" \o Pad2(st.mi)
           \o " MSG %\"" \o TheSummary.text \o "%\" %b, %2"

\* C9: in remind format a printed event is exactly one line
\* REM <month abbreviation> <dd> AT <hh>:<mm> MSG %"<trimmed summary>%" %b, %2
\* with the date and time of the event's start (00:00 for a date-only event);
\* for "Lunch" starting 2025-01-05T12:30 it is
\* REM Jan 05 AT 12:30 MSG %"Lunch%" %b, %2
C9_RemindLine ==
    (format = "remind" /\ OneEventRun /\ ExitedZero) =>
        /\ stdout = (IF TheEventIsDue THEN <<ExpectedRemindLine>> ELSE <<>>)
        /\ (TheEventIsDue /\ TheStart = LunchStart /\ TheSummary.text = "Lunch") =>
              stdout = <<"REM Jan 05 AT 12:30 MSG %\"Lunch%\" %b, %2">>

\* C9: the Lunch event printed, its summary sent with white space around it
C9_Witness ==
    /\ format = "remind" /\ OneEventRun /\ ExitedZero
    /\ TheStart = LunchStart /\ Len(TheSummary.raw) > 5
    /\ stdout = <<"REM Jan 05 AT 12:30 MSG %\"Lunch%\" %b, %2">>

(***************************************************************************)
(* What a run has printed, calendar by calendar.                           *)
(***************************************************************************)
\* the trimmed description of calendar i, as the text it reads as
NameText(i) ==
    (CHOOSE ds \in DescriptionTexts : ds.raw = calendar_list[i].Description).text

\* the lines of the events items of a calendar named calname, in order
RECURSIVE EventLines(_, _)
EventLines(items, calname) ==
    IF items = <<>> THEN <<>>
    ELSE PrintEvent(Head(items), calname).lines \o EventLines(Tail(items), calname)

CalendarLines(i) == EventLines(remote[i].items, TrimSpace(calendar_list[i].Description))

\* the lines of every event of the calendars i..n, empty-named ones included
RECURSIVE AllLines(_, _)
AllLines(i, n) == IF i > n THEN <<>> ELSE CalendarLines(i) \o AllLines(i + 1, n)

\* the lines of every event of the calendars i..n, as if the empty-named
\* calendars were not in the list
RECURSIVE NamedLines(_, _)
NamedLines(i, n) ==
    IF i > n THEN <<>>
    ELSE (IF NameText(i) = "" THEN <<>> ELSE CalendarLines(i)) \o NamedLines(i + 1, n)

\* the lines of every event of the calendars i..n that the loop does not pass over
RECURSIVE DueLines(_, _)
DueLines(i, n) ==
    IF i > n THEN <<>>
    ELSE (IF NameText(i) = "" /\ ~emptycal THEN <<>> ELSE CalendarLines(i))
            \o DueLines(i + 1, n)

IsPrefix(s, t) == Len(s) <= Len(t) /\ s = SubSeq(t, 1, Len(s))

CountPreamble == Cardinality({i \in 1..Len(stdout) : stdout[i] = OrgPreamble})

\* the calendar list has been obtained
Listed == idx >= 1

\* C1: a run whose format is neither empty nor "remind" nor "org" writes
\* nothing to standard output and ends with a non-zero status, whatever the
\* calendars and events.
C1_UnrecognizedFormatIsFatal ==
    format \notin {"", "remind", "org"} =>
        /\ stdout = <<>>
        /\ pc = "exited" => exitStatus # 0

\* C2: when getEvents returns an error for the calendar the loop is at (the
\* duration is invalid, or the service fails), the run stops at that calendar
\* with a non-zero status, whatever the calendar's name and -emptycal.
C2_ListingErrorStopsRun ==
    [][(/\ pc = "loop" /\ idx <= Len(calendar_list)
        /\ (duration \notin {"1d", "1w", "1m"} \/ remote[idx].err))
       => (pc' = "exited" /\ exitStatus' # 0)]_vars

\* C3: without -emptycal no event of a calendar whose trimmed description is
\* empty is printed, and the events of the other calendars are printed exactly
\* as if the empty-named calendars were not in the list: between calendars,
\* within a calendar and at a normal exit the output is the output for the
\* named calendars alone.
C3_EmptyNamedAbsent ==
    (~emptycal /\ Listed) =>
        /\ pc = "loop" => stdout = Preamble(format) \o NamedLines(1, idx - 1)
        /\ pc = "events" =>
              /\ NameText(idx) # ""
              /\ stdout = Preamble(format) \o NamedLines(1, idx - 1)
                            \o EventLines(SubSeq(events, 1, evIdx - 1),
                                          TrimSpace(calendar_list[idx].Description))
        /\ pc = "exited" =>
              IsPrefix(stdout, Preamble(format) \o NamedLines(1, Len(calendar_list)))
        /\ ExitedZero => stdout = Preamble(format) \o NamedLines(1, Len(calendar_list))

\* C3: a normal exit with an empty-named calendar holding events before a
\* named one whose events are printed
C3_Witness ==
    /\ ~emptycal /\ ExitedZero /\ format = "remind"
    /\ Len(calendar_list) = 2
    /\ NameText(1) = "" /\ remote[1].items # <<>>
    /\ NameText(2) # "" /\ Len(remote[2].items) = 2
    /\ Len(stdout) = 2

(***************************************************************************)
(* The query window.                                                       *)
(***************************************************************************)
\* local midnight of the civil date c, as the service receives it
LocalMidnightText(c) == CivilText(c) \o "T00:00:00-05:00"

Today == <<now.year, now.month, now.day>>

LastRequest == requests[Len(requests)]

\* the same day-of-month in the following month
SameDayNextMonth(c) ==
    IF c[2] = 12 THEN <<c[1] + 1, 1, c[3]>> ELSE <<c[1], c[2] + 1, c[3]>>

\* the same day-of-month in the following month when that month has such a
\* day, else as many days into the month after it as the day exceeds its length
OneMonthOn(c) ==
    LET n == SameDayNextMonth(c)
    IN IF c[3] <= CivilDaysIn(n[1], n[2]) THEN n
       ELSE <<n[1], n[2] + 1, c[3] - CivilDaysIn(n[1], n[2])>>

\* C4: the window of every event query starts at local midnight of the current
\* date and ends at local midnight of the next day for "1d", of the day seven
\* days on for "1w", of the same day-of-month in the following month for "1m".
C4_Window ==
    requests # <<>> =>
        /\ LastRequest.TimeMin = LocalMidnightText(Today)
        /\ LastRequest.TimeMax =
              LocalMidnightText(IF duration = "1d" THEN DayAfter(Today)
                                ELSE IF duration = "1w" THEN DaysAfter(Today, 7)
                                ELSE SameDayNextMonth(Today))

\* C4, amended: as C4, but for "1m" the window ends at local midnight of the
\* same day-of-month in the following month only when that month has such a
\* day; otherwise it ends as many days into the month after it as the day
\* exceeds that month's length (31 January: 3 March, or 2 March in a leap year).
C4_WindowNormalised ==
    requests # <<>> =>
        /\ LastRequest.TimeMin = LocalMidnightText(Today)
        /\ LastRequest.TimeMax =
              LocalMidnightText(IF duration = "1d" THEN DayAfter(Today)
                                ELSE IF duration = "1w" THEN DaysAfter(Today, 7)
                                ELSE OneMonthOn(Today))

\* C4: a one-month window asked for on 31 January 2025
C4_Witness ==
    /\ requests # <<>> /\ duration = "1m" /\ Today = <<2025, 1, 31>>
    /\ LastRequest.TimeMin = "2025-01-31T00:00:00-05:00"
    /\ LastRequest.TimeMax = "2025-03-03T00:00:00-05:00"

(***************************************************************************)
(* The token cache.                                                        *)
(***************************************************************************)
\* C5: the token file changes only in saveToken, with the token of a successful
\* exchange; when the code cannot be read or the exchange fails the process
\* ends with a non-zero status and the file as it was; when the cached token
\* loads, standard input is not read and the file is not written.
C5_TokenWrittenAfterExchange ==
    [][/\ tokenFile' # tokenFile => (pc = "saveToken" /\ tok = "new")
       /\ (pc = "getTokenFromWeb" /\ tok' # "new") =>
             (pc' = "exited" /\ exitStatus' # 0 /\ tokenFile' = tokenFile)
       /\ stdinReads' # stdinReads => tokenFile \in {"absent", "corrupt"}
       /\ tokenFile = "cached" => (stdinReads' = 0 /\ tokenFile' = "cached")]_vars

\* C5: the exchange failed with no token file on disk
C5_Witness ==
    /\ pc = "exited" /\ exitStatus = 1
    /\ fatal = "Unable to get token: exchange failed"
    /\ tokenFile = "absent" /\ stdinReads = 1 /\ tok = ""

(***************************************************************************)
(* The org preamble.                                                       *)
(***************************************************************************)
\* C6: in every run the org preamble is written exactly once, before any event
\* line, when the format is "org", and never when it is anything else.
C6_PreambleEveryRun ==
    pc = "exited" =>
        IF format = "org"
        THEN CountPreamble = 1 /\ stdout[1] = OrgPreamble
        ELSE CountPreamble = 0

\* C6, amended: in every run that obtains the calendar list the org preamble is
\* written exactly once, before any event line, when the format is "org" (also
\* with no calendars or no events); it is never written when the format is
\* anything else; a run that ends before the list is obtained writes nothing.
C6_PreambleOnceListed ==
    /\ (format = "org" /\ Listed) => (CountPreamble = 1 /\ stdout[1] = OrgPreamble)
    /\ format # "org" => CountPreamble = 0
    /\ ~Listed => stdout = <<>>

\* C6: an org run over an empty calendar list
C6_Witness ==
    format = "org" /\ ExitedZero /\ calendar_list = <<>> /\ stdout = <<OrgPreamble>>

(***************************************************************************)
(* The order of the driver's steps.                                        *)
(***************************************************************************)
\* Init, Authenticated, ListingCalendars, ListingEvents, Formatting, Done
Phase(p) ==
    CASE p \in {"init", "main", "getClient", "getTokenFromWeb", "saveToken"} -> 0
      [] p = "NewService" -> 1
      [] p = "getCalendarList" -> 2
      [] p = "loop" -> 3
      [] p = "events" -> 4
      [] p = "exited" -> 5

\* a step moves forward: to a later phase, to the next event of the calendar,
\* or from a calendar to the next one
Forward ==
    /\ Phase(pc') >= Phase(pc) \/ (pc = "events" /\ pc' = "loop")
    /\ calendar_list # <<>> => calendar_list' = calendar_list
    /\ pc = "loop" /\ pc' = "loop" => idx' = idx + 1
    /\ pc = "loop" /\ pc' = "events" =>
          (idx' = idx /\ evIdx' = 1 /\ events' = remote[idx].items)
    /\ pc = "events" /\ pc' = "events" =>
          (idx' = idx /\ evIdx' = evIdx + 1 /\ events' = events)
    /\ pc = "events" /\ pc' = "loop" => (idx' = idx + 1 /\ evIdx = Len(events))
    /\ pc' = "exited" => idx' = idx

\* the calendars the loop has called getEvents for
Begun == IF pc = "loop" \/ ExitedZero THEN idx - 1 ELSE idx

InListOrder ==
    \A k \in 1..Len(requests) : requests[k].calendarId = calendar_list[k].Id

\* a run that no fatal error ended exits with status 0 after the last
\* calendar, and a run that has not ended has a next step: the loops are at a
\* calendar of the list or just past the last, and at an event of the listing
EndsAfterLast ==
    /\ (pc = "exited" /\ fatal = "") =>
          (exitStatus = 0 /\ Listed /\ idx = Len(calendar_list) + 1)
    /\ ExitedZero => fatal = ""
    /\ pc \in {"init", "main", "getClient", "getTokenFromWeb", "saveToken",
               "NewService", "getCalendarList", "loop", "events", "exited"}
    /\ pc = "loop" => idx \in 1..(Len(calendar_list) + 1)
    /\ pc = "events" => (idx \in 1..Len(calendar_list) /\ evIdx \in 1..Len(events))

\* C7: the driver only moves forward; calendars are handled in list order and
\* the events of a calendar are printed in listing order; the events of a
\* calendar are listed only after every event of all earlier calendars has
\* been printed; a run with no fatal error exits 0 after the last calendar.
C7_Sequential ==
    /\ [][Forward]_vars
    /\ [](/\ InListOrder
          /\ EndsAfterLast
          /\ pc = "loop" => stdout = Preamble(format) \o AllLines(1, idx - 1)
          /\ pc = "events" =>
                stdout = Preamble(format) \o AllLines(1, idx - 1)
                           \o EventLines(SubSeq(events, 1, evIdx - 1),
                                         TrimSpace(calendar_list[idx].Description)))

\* C7, amended: as C7, but the events of a calendar are listed only after
\* every event of all earlier calendars that were not passed over (for an
\* empty name without -emptycal) has been printed.
C7_SequentialDue ==
    /\ [][Forward]_vars
    /\ [](/\ InListOrder
          /\ EndsAfterLast
          /\ pc = "loop" => stdout = Preamble(format) \o DueLines(1, idx - 1)
          /\ pc = "events" =>
                stdout = Preamble(format) \o DueLines(1, idx - 1)
                           \o EventLines(SubSeq(events, 1, evIdx - 1),
                                         TrimSpace(calendar_list[idx].Description)))

\* C7: a normal exit after two calendars, the first passed over, the second
\* with two events printed
C7_Witness ==
    /\ ExitedZero /\ ~emptycal /\ format = "org"
    /\ Len(calendar_list) = 2 /\ idx = 3
    /\ NameText(1) = "" /\ NameText(2) = "Work"
    /\ Len(remote[2].items) = 2 /\ Len(stdout) = 7
    /\ Len(requests) = 2

(***************************************************************************)
(* Listing before the skip decision.                                       *)
(***************************************************************************)
\* a service error on the listing of calendar idx ended the process
DiedListing ==
    /\ pc = "exited" /\ exitStatus = 1
    /\ fatal = "Unable to retrieve today's events"

\* a failing listing ends the process inside getEvents, whatever the name
ServiceErrorIsFatal ==
    /\ DiedListing => (remote[idx].err /\ Len(requests) = idx)
    /\ \A k \in 1..Len(requests) :
          remote[k].err => (k = idx /\ (DiedListing \/ pc = "loop"))

\* C10: an event-listing request is issued for every calendar the loop comes
\* to, in list order, before the skip decision (so also for an empty-named
\* calendar without -emptycal), and a service error on it ends the process
\* with a non-zero status inside getEvents.
C10_QueriedBeforeSkip ==
    Listed =>
        /\ Len(requests) = Begun
        /\ InListOrder
        /\ ServiceErrorIsFatal

\* C10, amended: getEvents is called for every calendar the loop comes to, in
\* list order, before the skip decision, and issues the event-listing request
\* when the duration is valid (with an invalid duration it returns its error
\* first and no request is ever issued); so with a valid duration an
\* empty-named calendar is queried even without -emptycal, and a service error
\* on that query ends the process with a non-zero status inside getEvents.
C10_QueriedBeforeSkipValid ==
    Listed =>
        /\ Len(requests) = (IF duration \in {"1d", "1w", "1m"} THEN Begun ELSE 0)
        /\ InListOrder
        /\ ServiceErrorIsFatal

\* C10: the listing of an empty-named calendar failed without -emptycal, after
\* an earlier empty-named calendar had been queried and passed over
C10_Witness ==
    /\ DiedListing /\ ~emptycal /\ idx = 2
    /\ NameText(1) = "" /\ NameText(2) = ""
    /\ remote[1].items # <<>>
    /\ Len(requests) = 2 /\ stdout = <<>>

====
